---- MODULE Spec2Model ----
(***************************************************************************)
(* Config flow and options flow of the pfSense integration                 *)
(* (custom_components/pfsense/config_flow.py).                             *)
(*                                                                         *)
(* Text is a sequence of one-character strings, except text that the code  *)
(* only joins (name, hostname, domain, title), which is a sequence of      *)
(* tokens.  A Python value that may be missing (None, an unbound local, an *)
(* absent result field) is <<>> when missing and <<v>> when present.       *)
(*                                                                         *)
(* async_step_user gives up control at its two awaits (lines 84 and 94);   *)
(* each stretch between them is one action, and other flows may add config *)
(* entries in between.  The entry of a create_entry result is added by the *)
(* flow manager after the step has returned.                               *)
(***************************************************************************)
EXTENDS Integers, Sequences, FiniteSets, TLC

None == <<>>
Some(v) == <<v>>

\* ---------------------------------------------------------------- shapes

\* Every record of the model lists its fields in one fixed order.

\* An exception: its class and the text str(err) gives.
Exc(cls, text) == [cls |-> cls, text |-> text]

\* What client.get_system_info does: it returns a system info or raises.
Returns(system_info) == [kind |-> "return", info |-> system_info]
Raises(error) == [kind |-> "raise", error |-> error]

\* The flow result of a step of the config flow.
NoResult ==
    [type |-> "none", step_id |-> None, errors |-> None, title |-> None,
     data |-> None, exc |-> None, logged |-> None]

\* The result of a step of the options flow.
NoOptionsResult ==
    [type |-> "none", step_id |-> None, title |-> None, data |-> None,
     defaults |-> None]

\* The locals and effects of one run of the try block of async_step_user.
\*   url, verify_ssl, username, password, name: the locals, None while
\*              unbound (name: None also when it holds Python's None)
\*   client:    the arguments Client was constructed with
\*   called:    client.get_system_info was run
\*   unique_id: the value handed to async_set_unique_id
\*   raised:    the exception that left the try block
\*   created:   the arguments of async_create_entry
NoFrame ==
    [url |-> None, verify_ssl |-> None, username |-> None, password |-> None,
     name |-> None, client |-> None, called |-> FALSE, unique_id |-> None,
     raised |-> None, created |-> None]

\* ---------------------------------------------------------------- constants
CONF_NAME == "name"
CONF_PASSWORD == "password"
CONF_SCAN_INTERVAL == "scan_interval"
CONF_URL == "url"
CONF_USERNAME == "username"
CONF_VERIFY_SSL == "verify_ssl"
CONF_DEVICE_TRACKER_ENABLED == "device_tracker_enabled"
CONF_DEVICE_TRACKER_SCAN_INTERVAL == "device_tracker_scan_interval"
DEFAULT_USERNAME == <<"a", "d", "m", "i", "n">>
DEFAULT_VERIFY_SSL == FALSE
DEFAULT_SCAN_INTERVAL == 30
DEFAULT_DEVICE_TRACKER_ENABLED == FALSE
DEFAULT_DEVICE_TRACKER_SCAN_INTERVAL == 150

\* dict.get(key, default)
DictGet(d, key, default) == IF key \in DOMAIN d THEN d[key] ELSE default

\* ---------------------------------------------------------------- str.strip

Whitespace == {" "}

RECURSIVE LStrip(_)
LStrip(s) ==
    IF s # <<>> /\ Head(s) \in Whitespace THEN LStrip(Tail(s)) ELSE s

RECURSIVE RStrip(_)
RStrip(s) ==
    IF s # <<>> /\ s[Len(s)] \in Whitespace
    THEN RStrip(SubSeq(s, 1, Len(s) - 1))
    ELSE s

strip(s) == RStrip(LStrip(s))

\* ---------------------------------------------------------------- urlparse

\* The characters of the URL alphabet that may form a scheme (ASCII letters).
SchemeChars == {"h", "H", "a"}

Lower(c) == IF c = "H" THEN "h" ELSE c

LowerAll(s) == [i \in 1..Len(s) |-> Lower(s[i])]

\* Index of the first character of s at or after position from that is in
\* chars, or 0 when there is none (str.find, one-based).
Find(s, chars, from) ==
    LET I == {i \in from..Len(s) : s[i] \in chars}
    IN  IF I = {} THEN 0 ELSE CHOOSE i \in I : \A j \in I : i <= j

\* str.split(sep)
RECURSIVE Split(_, _)
Split(s, sep) ==
    LET i == Find(s, {sep}, 1)
    IN  IF i = 0 THEN <<s>>
        ELSE <<SubSeq(s, 1, i - 1)>> \o Split(SubSeq(s, i + 1, Len(s)), sep)

HexDigits ==
    {"0", "1", "2", "3", "4", "5", "6", "7", "8", "9",
     "a", "b", "c", "d", "e", "f", "A", "B", "C", "D", "E", "F"}

\* ipaddress.IPv6Address._parse_hextet
IsHextet(part) ==
    /\ Len(part) \in 1..4
    /\ \A i \in 1..Len(part) : part[i] \in HexDigits

\* ipaddress.ip_address(hostname) succeeds.  No character of the URL
\* alphabet is a digit, a dot or a percent sign, so an address is an IPv6
\* address without an IPv4 suffix and without a scope id.
IsIPAddress(hostname) ==
    LET parts == Split(hostname, ":")
        n == Len(parts)
        skips == {i \in 2..(n - 1) : parts[i] = <<>>}
    IN  /\ hostname # <<>>
        /\ n >= 3
        /\ n <= 9
        /\ Cardinality(skips) <= 1
        /\ IF skips # {}
           THEN LET skip == CHOOSE i \in skips : TRUE
                    parts_hi == IF parts[1] = <<>> THEN skip - 2 ELSE skip - 1
                    parts_lo == IF parts[n] = <<>> THEN n - skip - 1 ELSE n - skip
                IN  /\ parts[1] = <<>> => parts_hi = 0
                    /\ parts[n] = <<>> => parts_lo = 0
                    /\ 8 - (parts_hi + parts_lo) >= 1
                    /\ \A i \in 1..parts_hi : IsHextet(parts[i])
                    /\ \A i \in (n - parts_lo + 1)..n : IsHextet(parts[i])
           ELSE /\ n = 8
                /\ \A i \in 1..n : IsHextet(parts[i])

\* The text between the first "[" of the netloc and the next "]":
\* netloc.partition("[")[2].partition("]")[0]
BracketedHost(netloc) ==
    LET open == Find(netloc, {"["}, 1)
        after == SubSeq(netloc, open + 1, Len(netloc))
        close == Find(after, {"]"}, 1)
    IN  IF close = 0 THEN after ELSE SubSeq(after, 1, close - 1)

\* urllib.parse.urlparse, as far as the flow reads its result: scheme and
\* netloc, or the ValueError raised for the brackets of the netloc.
urlparse(url) ==
    LET stripped == LStrip(url)
        colon == Find(stripped, {":"}, 1)
        hasScheme == /\ colon > 1
                     /\ \A i \in 1..(colon - 1) : stripped[i] \in SchemeChars
        scheme == IF hasScheme THEN LowerAll(SubSeq(stripped, 1, colon - 1))
                  ELSE <<>>
        rest == IF hasScheme THEN SubSeq(stripped, colon + 1, Len(stripped))
                ELSE stripped
        hasNetloc == Len(rest) >= 2 /\ rest[1] = "/" /\ rest[2] = "/"
        delim == Find(rest, {"/", "?", "#"}, 3)
        stop == IF delim = 0 THEN Len(rest) + 1 ELSE delim
        netloc == IF hasNetloc THEN SubSeq(rest, 3, stop - 1) ELSE <<>>
        opens == \E i \in 1..Len(netloc) : netloc[i] = "["
        closes == \E i \in 1..Len(netloc) : netloc[i] = "]"
        host == BracketedHost(netloc)
    IN  IF opens # closes
        THEN [raised |-> Some(Exc("ValueError", <<"I", "n", "v", "a", "l",
                                                  "i", "d", " ", "I", "P",
                                                  "v", "6", " ", "U", "R",
                                                  "L">>)),
              scheme |-> scheme, netloc |-> netloc]
        ELSE IF opens /\ ~IsIPAddress(host)
        THEN [raised |-> Some(Exc("ValueError",
                  <<"'">> \o host
                  \o <<"'", " ", "d", "o", "e", "s", " ", "n", "o", "t",
                       " ", "a", "p", "p", "e", "a", "r", " ", "t", "o",
                       " ", "b", "e", " ", "a", "n", " ", "I", "P", "v",
                       "4", " ", "o", "r", " ", "I", "P", "v", "6", " ",
                       "a", "d", "d", "r", "e", "s", "s">>)),
              scheme |-> scheme, netloc |-> netloc]
        ELSE [raised |-> None, scheme |-> scheme, netloc |-> netloc]

\* f"{url_parts.scheme}://{url_parts.netloc}"
BaseUrl(url, parts) == parts.scheme \o <<":", "/", "/">> \o parts.netloc

\* ---------------------------------------------------------------- slugify

SlugKeep == {"a", "b"}

SlugLower(c) == IF c = "A" THEN "a" ELSE IF c = "B" THEN "b" ELSE c

\* Lower-case, every run of other characters becomes one separator.
RECURSIVE SlugRuns(_)
SlugRuns(s) ==
    IF s = <<>> THEN <<>>
    ELSE LET c == SlugLower(Head(s))
             r == SlugRuns(Tail(s))
         IN  IF c \in SlugKeep THEN <<c>> \o r
             ELSE IF r # <<>> /\ Head(r) = "_" THEN r
             ELSE <<"_">> \o r

SlugTrim(s) ==
    LET a == IF s # <<>> /\ Head(s) = "_" THEN Tail(s) ELSE s
    IN  IF a # <<>> /\ a[Len(a)] = "_" THEN SubSeq(a, 1, Len(a) - 1) ELSE a

\* homeassistant.util.slugify(text, separator="_")
slugify(text) ==
    IF text = <<>> THEN <<>>
    ELSE LET slug == SlugTrim(SlugRuns(text))
         IN  IF slug = <<>> THEN <<"u", "n", "k", "n", "o", "w", "n">> ELSE slug

\* ---------------------------------------------------------------- exceptions

\* Python's class hierarchy among the exception classes that occur.
Bases(cls) ==
    CASE cls = "TimeoutError" -> {"TimeoutError", "OSError", "Exception", "BaseException"}
      [] cls = "CancelledError" -> {"CancelledError", "BaseException"}
      [] OTHER -> {cls, "Exception", "BaseException"}

IsInstance(exc, cls) == cls \in Bases(exc.cls)

\* Index of the first occurrence of sub in s at or after position from, or
\* 0 when there is none (str.find, one-based).
FindSub(s, sub, from) ==
    LET I == {i \in from..(Len(s) - Len(sub) + 1) :
                  SubSeq(s, i, i + Len(sub) - 1) = sub}
    IN  IF I = {} THEN 0 ELSE CHOOSE i \in I : \A j \in I : i <= j

\* "phrase in str(err)"
Contains(text, phrase) == FindSub(text, phrase, 1) # 0

\* str(KeyError(key))
KeyErrorText(key) == <<"'">> \o key \o <<"'">>

\* repr(err).  Fault and ProtocolError print themselves; a KeyError shows
\* its key, any other exception its message (one without quotes or
\* backslashes), or nothing when it was raised without one.
Repr(exc) ==
    IF exc.cls \in {"Fault", "ProtocolError"} THEN exc.text
    ELSE LET name == CASE exc.cls = "KeyError" -> <<"K", "e", "y", "E",
                                                    "r", "r", "o", "r">>
                       [] exc.cls = "ValueError" -> <<"V", "a", "l", "u",
                                                      "e", "E", "r", "r",
                                                      "o", "r">>
                       [] exc.cls = "OSError" -> <<"O", "S", "E", "r", "r",
                                                   "o", "r">>
                       [] exc.cls = "TimeoutError" -> <<"T", "i", "m", "e",
                                                        "o", "u", "t", "E",
                                                        "r", "r", "o", "r">>
                       [] exc.cls = "Exception" -> <<"E", "x", "c", "e",
                                                     "p", "t", "i", "o", "n">>
                       [] exc.cls = "CancelledError" -> <<"C", "a", "n",
                                                          "c", "e", "l",
                                                          "l", "e", "d",
                                                          "E", "r", "r",
                                                          "o", "r">>
                       [] exc.cls = "AbortFlow" -> <<"A", "b", "o", "r",
                                                     "t", "F", "l", "o", "w">>
                       [] exc.cls = "InvalidURL" -> <<"I", "n", "v", "a",
                                                      "l", "i", "d", "U",
                                                      "R", "L">>
         IN  IF exc.cls = "KeyError" THEN name \o <<"(">> \o exc.text \o <<")">>
             ELSE IF exc.text = <<>> THEN name \o <<"(", ")">>
             ELSE name \o <<"(", "'">> \o exc.text \o <<"'", ")">>

\* repr(type(err))
TypeRepr(exc) ==
    LET name == CASE exc.cls = "Fault" -> <<"x", "m", "l", "r", "p", "c",
                                            ".", "c", "l", "i", "e", "n",
                                            "t", ".", "F", "a", "u", "l",
                                            "t">>
                  [] exc.cls = "ProtocolError" -> <<"x", "m", "l", "r",
                                                    "p", "c", ".", "c",
                                                    "l", "i", "e", "n",
                                                    "t", ".", "P", "r",
                                                    "o", "t", "o", "c",
                                                    "o", "l", "E", "r",
                                                    "r", "o", "r">>
                  [] exc.cls = "KeyError" -> <<"K", "e", "y", "E", "r",
                                               "r", "o", "r">>
                  [] exc.cls = "ValueError" -> <<"V", "a", "l", "u", "e",
                                                 "E", "r", "r", "o", "r">>
                  [] exc.cls = "OSError" -> <<"O", "S", "E", "r", "r", "o",
                                              "r">>
                  [] exc.cls = "TimeoutError" -> <<"T", "i", "m", "e", "o",
                                                   "u", "t", "E", "r", "r",
                                                   "o", "r">>
                  [] exc.cls = "Exception" -> <<"E", "x", "c", "e", "p",
                                                "t", "i", "o", "n">>
                  [] exc.cls = "CancelledError" ->
                         <<"a", "s", "y", "n", "c", "i", "o", ".", "e",
                           "x", "c", "e", "p", "t", "i", "o", "n", "s",
                           ".", "C", "a", "n", "c", "e", "l", "l", "e",
                           "d", "E", "r", "r", "o", "r">>
                  [] exc.cls = "AbortFlow" ->
                         <<"h", "o", "m", "e", "a", "s", "s", "i", "s",
                           "t", "a", "n", "t", ".", "d", "a", "t", "a",
                           "_", "e", "n", "t", "r", "y", "_", "f", "l",
                           "o", "w", ".", "A", "b", "o", "r", "t", "F",
                           "l", "o", "w">>
                  [] exc.cls = "InvalidURL" ->
                         <<"c", "u", "s", "t", "o", "m", "_", "c", "o",
                           "m", "p", "o", "n", "e", "n", "t", "s", ".",
                           "p", "f", "s", "e", "n", "s", "e", ".", "c",
                           "o", "n", "f", "i", "g", "_", "f", "l", "o",
                           "w", ".", "I", "n", "v", "a", "l", "i", "d",
                           "U", "R", "L">>
    IN  <<"<", "c", "l", "a", "s", "s", " ", "'">> \o name \o <<"'", ">">>

\* ---------------------------------------------------------------- logging

Range(s) == {s[i] : i \in 1..Len(s)}

\* The characters urllib.parse.quote_plus leaves as they are.
Unreserved ==
    Range(<<"a", "b", "c", "d", "e", "f", "g", "h", "i", "j", "k", "l",
            "m", "n", "o", "p", "q", "r", "s", "t", "u", "v", "w", "x",
            "y", "z", "A", "B", "C", "D", "E", "F", "G", "H", "I", "J",
            "K", "L", "M", "N", "O", "P", "Q", "R", "S", "T", "U", "V",
            "W", "X", "Y", "Z", "0", "1", "2", "3", "4", "5", "6", "7",
            "8", "9", "_", ".", "-", "~">>)

\* The two hexadecimal digits of the percent-encoding of an ASCII
\* punctuation character (the backquote, which no string here holds, apart).
PercentCode(c) ==
    CASE c = "!" -> <<"2", "1">>
      [] c = "\"" -> <<"2", "2">>
      [] c = "#" -> <<"2", "3">>
      [] c = "$" -> <<"2", "4">>
      [] c = "%" -> <<"2", "5">>
      [] c = "&" -> <<"2", "6">>
      [] c = "'" -> <<"2", "7">>
      [] c = "(" -> <<"2", "8">>
      [] c = ")" -> <<"2", "9">>
      [] c = "*" -> <<"2", "A">>
      [] c = "+" -> <<"2", "B">>
      [] c = "," -> <<"2", "C">>
      [] c = "/" -> <<"2", "F">>
      [] c = ":" -> <<"3", "A">>
      [] c = ";" -> <<"3", "B">>
      [] c = "<" -> <<"3", "C">>
      [] c = "=" -> <<"3", "D">>
      [] c = ">" -> <<"3", "E">>
      [] c = "?" -> <<"3", "F">>
      [] c = "@" -> <<"4", "0">>
      [] c = "[" -> <<"5", "B">>
      [] c = "\\" -> <<"5", "C">>
      [] c = "]" -> <<"5", "D">>
      [] c = "^" -> <<"5", "E">>
      [] c = "{" -> <<"7", "B">>
      [] c = "|" -> <<"7", "C">>
      [] c = "}" -> <<"7", "D">>

\* urllib.parse.quote_plus of a printable ASCII string
RECURSIVE quote_plus(_)
quote_plus(s) ==
    IF s = <<>> THEN <<>>
    ELSE LET c == Head(s)
             q == IF c \in Unreserved THEN <<c>>
                  ELSE IF c = " " THEN <<"+">>
                  ELSE <<"%">> \o PercentCode(c)
         IN  q \o quote_plus(Tail(s))

\* str.replace(old, new) for an empty old: new goes before every character
\* and after the last.
ReplaceEmpty(s, new) ==
    LET L == Len(new)
    IN  [k \in 1..(Len(s) * (L + 1) + L) |->
            IF (k - 1) % (L + 1) < L
            THEN new[((k - 1) % (L + 1)) + 1]
            ELSE s[((k - 1) \div (L + 1)) + 1]]

\* str.replace(old, new) from position from on: the occurrences of old from
\* left to right, none overlapping another.
RECURSIVE ReplaceFrom(_, _, _, _)
ReplaceFrom(s, old, new, from) ==
    LET i == FindSub(s, old, from)
    IN  IF i = 0 THEN SubSeq(s, from, Len(s))
        ELSE SubSeq(s, from, i - 1) \o new
                 \o ReplaceFrom(s, old, new, i + Len(old))

\* str.replace(old, new)
Replace(s, old, new) ==
    IF old = <<>> THEN ReplaceEmpty(s, new) ELSE ReplaceFrom(s, old, new, 1)

REDACTED == <<"[", "r", "e", "d", "a", "c", "t", "e", "d", "]">>

\* cleanse_sensitive_data(message, secrets): for every secret that is not
\* None, the secret and then its quote_plus form are replaced.
RECURSIVE cleanse_sensitive_data(_, _)
cleanse_sensitive_data(message, secrets) ==
    IF secrets = <<>> THEN message
    ELSE LET secret == Head(secrets)
         IN  IF secret = None
             THEN cleanse_sensitive_data(message, Tail(secrets))
             ELSE cleanse_sensitive_data(
                      Replace(Replace(message, secret[1], REDACTED),
                              quote_plus(secret[1]), REDACTED),
                      Tail(secrets))

\* ---------------------------------------------------------------- try body

\* name = user_input.get(CONF_NAME, False) or None
\* Variant of SubmittedName without the "or None": an empty name is kept.
SubmittedNameMutantKeepEmpty(user_input) ==
    IF CONF_NAME \in DOMAIN user_input THEN Some(user_input[CONF_NAME]) ELSE None

SubmittedName(user_input) ==
    IF CONF_NAME \in DOMAIN user_input /\ user_input[CONF_NAME] # <<>>
    THEN Some(user_input[CONF_NAME])
    ELSE None

\* "{}.{}".format(system_info["hostname"], system_info["domain"])
DeviceName(system_info) == system_info["hostname"] \o <<".">> \o system_info["domain"]

\* if name is None: name = "{}.{}".format(...)
Title(name, system_info) == IF name = None THEN DeviceName(system_info) ELSE name[1]

\* data={CONF_URL: url, CONF_PASSWORD: password, CONF_USERNAME: username,
\*       CONF_VERIFY_SSL: verify_ssl}
EntryData(url, username, password, verify_ssl) ==
    [url |-> url, verify_ssl |-> verify_ssl, username |-> username,
     password |-> password]

\* Variant of Client that ignores the submitted username.
ClientMutantDefaultUsername(url, username, password, verify_ssl) ==
    [url |-> url, verify_ssl |-> verify_ssl, username |-> DEFAULT_USERNAME,
     password |-> password]

\* Client(url, username, password, {"verify_ssl": verify_ssl})
Client(url, username, password, verify_ssl) ==
    [url |-> url, verify_ssl |-> verify_ssl, username |-> username,
     password |-> password]

\* self._abort_if_unique_id_configured(): AbortFlow when an entry of this
\* handler already has the flow's unique id.
UniqueIdConfigured(unique_id, configured) ==
    \E i \in 1..Len(configured) : configured[i] = unique_id

\* Lines 97-107: _abort_if_unique_id_configured and async_create_entry,
\* with the config entries there are when the step goes on after line 94.
AfterUniqueId(f, configured) ==
    IF UniqueIdConfigured(f.unique_id[1], configured)
    THEN [f EXCEPT !.raised =
             Some(Exc("AbortFlow", <<"F", "l", "o", "w", " ", "a", "b",
                                     "o", "r", "t", "e", "d", ":", " ",
                                     "a", "l", "r", "e", "a", "d", "y",
                                     "_", "c", "o", "n", "f", "i", "g",
                                     "u", "r", "e", "d">>))]
    ELSE [f EXCEPT !.created =
             Some([title |-> f.name[1],
                   data |-> EntryData(f.url[1], f.username[1],
                                      f.password[1], f.verify_ssl[1])])]

\* Lines 84-96: what client.get_system_info did, the name, and the unique
\* id handed to async_set_unique_id.
AfterDevice(f, outcome) ==
    IF outcome.kind = "raise"
    THEN [f EXCEPT !.raised = Some(outcome.error)]
    ELSE
    LET system_info == outcome.info
    IN  IF f.name = None /\ "hostname" \notin DOMAIN system_info
        THEN [f EXCEPT !.raised =
                 Some(Exc("KeyError", KeyErrorText(<<"h", "o", "s", "t",
                                                     "n", "a", "m", "e">>)))]
        ELSE IF f.name = None /\ "domain" \notin DOMAIN system_info
        THEN [f EXCEPT !.raised =
                 Some(Exc("KeyError", KeyErrorText(<<"d", "o", "m", "a",
                                                     "i", "n">>)))]
        ELSE
        LET f1 == [f EXCEPT !.name = Some(Title(f.name, system_info))]
        IN  IF "netgate_device_id" \notin DOMAIN system_info
            THEN [f1 EXCEPT !.raised =
                     Some(Exc("KeyError", KeyErrorText(<<"n", "e", "t",
                                                         "g", "a", "t",
                                                         "e", "_", "d",
                                                         "e", "v", "i",
                                                         "c", "e", "_",
                                                         "i", "d">>)))]
            ELSE [f1 EXCEPT !.unique_id =
                     Some(slugify(system_info["netgate_device_id"]))]

\* Lines 79-84: the credentials, the client, and the device call handed to
\* the executor.
Connect(f, user_input) ==
    LET f1 == [f EXCEPT !.username =
                  Some(DictGet(user_input, CONF_USERNAME, DEFAULT_USERNAME))]
    IN  IF CONF_PASSWORD \notin DOMAIN user_input
        THEN [f1 EXCEPT !.raised =
                 Some(Exc("KeyError", KeyErrorText(<<"p", "a", "s", "s",
                                                     "w", "o", "r", "d">>)))]
        ELSE
        LET password == user_input[CONF_PASSWORD]
            verify_ssl == DictGet(user_input, CONF_VERIFY_SSL, DEFAULT_VERIFY_SSL)
        IN  [f1 EXCEPT !.password = Some(password),
                       !.verify_ssl = Some(verify_ssl),
                       !.client = Some(Client(f.url[1], f1.username[1],
                                              password, verify_ssl)),
                       !.called = TRUE]

\* Lines 65-84: the try block up to the device call.
BeforeDevice(user_input) ==
    LET f0 == [NoFrame EXCEPT !.name = SubmittedName(user_input)]
    IN  IF CONF_URL \notin DOMAIN user_input
        THEN [f0 EXCEPT !.raised = Some(Exc("KeyError", KeyErrorText(<<"u",
                                                                       "r",
                                                                       "l">>)))]
        ELSE
        LET url == strip(user_input[CONF_URL])
            url_parts == urlparse(url)
            f1 == [f0 EXCEPT !.url = Some(url)]
        IN  IF url_parts.raised # None
            THEN [f1 EXCEPT !.raised = url_parts.raised]
            ELSE IF Len(url_parts.scheme) < 1
            THEN [f1 EXCEPT !.raised = Some(Exc("InvalidURL", <<>>))]
            ELSE IF Len(url_parts.netloc) < 1
            THEN [f1 EXCEPT !.raised = Some(Exc("InvalidURL", <<>>))]
            ELSE Connect([f1 EXCEPT !.url = Some(BaseUrl(url, url_parts))],
                         user_input)

\* ---------------------------------------------------------------- handlers

\* except xmlrpc.client.Fault (lines 110-120); log: the branch logs
FaultCode(text) ==
    IF Contains(text, <<"I", "n", "v", "a", "l", "i", "d", " ", "u", "s",
                        "e", "r", "n", "a", "m", "e", " ", "o", "r", " ",
                        "p", "a", "s", "s", "w", "o", "r", "d">>)
    THEN [code |-> "invalid_auth", log |-> FALSE]
    ELSE IF Contains(text, <<"A", "u", "t", "h", "e", "n", "t", "i", "c",
                             "a", "t", "i", "o", "n", " ", "f", "a", "i",
                             "l", "e", "d", ":", " ", "n", "o", "t", " ",
                             "e", "n", "o", "u", "g", "h", " ", "p", "r",
                             "i", "v", "i", "l", "e", "g", "e", "s">>)
    THEN [code |-> "privilege_missing", log |-> FALSE]
    ELSE [code |-> "cannot_connect", log |-> TRUE]

\* except xmlrpc.client.ProtocolError (lines 121-131)
ProtocolErrorCode(text) ==
    IF Contains(text, <<"3", "0", "7", " ", "T", "e", "m", "p", "o", "r",
                        "a", "r", "y", " ", "R", "e", "d", "i", "r", "e",
                        "c", "t">>)
    THEN [code |-> "url_redirect", log |-> FALSE]
    ELSE IF Contains(text, <<"3", "0", "1", " ", "M", "o", "v", "e", "d",
                             " ", "P", "e", "r", "m", "a", "n", "e", "n",
                             "t", "l", "y">>)
    THEN [code |-> "url_redirect", log |-> FALSE]
    ELSE [code |-> "cannot_connect", log |-> TRUE]

\* Variant of OSErrorCode that tests "timed out" first.
OSErrorCodeMutantTimeoutFirst(text) ==
    IF Contains(text, <<"t", "i", "m", "e", "d", " ", "o", "u", "t">>)
    THEN [code |-> "connect_timeout", log |-> FALSE]
    ELSE IF Contains(text, <<"u", "n", "s", "u", "p", "p", "o", "r", "t",
                             "e", "d", " ", "X", "M", "L", "-", "R", "P",
                             "C", " ", "p", "r", "o", "t", "o", "c", "o",
                             "l">>)
    THEN [code |-> "privilege_missing", log |-> FALSE]
    ELSE IF Contains(text, <<"S", "S", "L", ":">>)
    THEN [code |-> "cannot_connect_ssl", log |-> FALSE]
    ELSE [code |-> "unknown", log |-> TRUE]

\* except OSError (lines 132-147)
OSErrorCode(text) ==
    IF Contains(text, <<"u", "n", "s", "u", "p", "p", "o", "r", "t", "e",
                        "d", " ", "X", "M", "L", "-", "R", "P", "C", " ",
                        "p", "r", "o", "t", "o", "c", "o", "l">>)
    THEN [code |-> "privilege_missing", log |-> FALSE]
    ELSE IF Contains(text, <<"t", "i", "m", "e", "d", " ", "o", "u", "t">>)
    THEN [code |-> "connect_timeout", log |-> FALSE]
    ELSE IF Contains(text, <<"S", "S", "L", ":">>)
    THEN [code |-> "cannot_connect_ssl", log |-> FALSE]
    ELSE [code |-> "unknown", log |-> TRUE]

\* Variant of ExceptClause without the clause for InvalidURL.
ExceptClauseMutantNoInvalidURL(exc) ==
    IF IsInstance(exc, "Fault") THEN FaultCode(exc.text)
    ELSE IF IsInstance(exc, "ProtocolError") THEN ProtocolErrorCode(exc.text)
    ELSE IF IsInstance(exc, "OSError") THEN OSErrorCode(exc.text)
    ELSE [code |-> "unknown", log |-> TRUE]

\* The except clauses in their order (lines 108-153).
ExceptClause(exc) ==
    IF IsInstance(exc, "InvalidURL")
    THEN [code |-> "invalid_url_format", log |-> FALSE]
    ELSE IF IsInstance(exc, "Fault") THEN FaultCode(exc.text)
    ELSE IF IsInstance(exc, "ProtocolError") THEN ProtocolErrorCode(exc.text)
    ELSE IF IsInstance(exc, "OSError") THEN OSErrorCode(exc.text)
    ELSE [code |-> "unknown", log |-> TRUE]

\* f"Unexpected {err=}, {type(err)=}"
Message(exc) ==
    <<"U", "n", "e", "x", "p", "e", "c", "t", "e", "d", " ", "e", "r", "r",
      "=">> \o Repr(exc) \o <<",", " ", "t", "y", "p", "e", "(", "e", "r",
                              "r", ")", "=">> \o TypeRepr(exc)

\* str(UnboundLocalError) for a local read before it was assigned
UnboundLocalText(local) ==
    <<"c", "a", "n", "n", "o", "t", " ", "a", "c", "c", "e", "s", "s", " ",
      "l", "o", "c", "a", "l", " ", "v", "a", "r", "i", "a", "b", "l", "e",
      " ", "'">> \o local
        \o <<"'", " ", "w", "h", "e", "r", "e", " ", "i", "t", " ", "i",
             "s", " ", "n", "o", "t", " ", "a", "s", "s", "o", "c", "i",
             "a", "t", "e", "d", " ", "w", "i", "t", "h", " ", "a", " ",
             "v", "a", "l", "u", "e">>

\* What the except clause that catches f.raised does: the error code it
\* sets and the message it logs, or the exception that leaves it. A logging
\* branch reads the locals username and password.
Handle(f) ==
    LET exc == f.raised[1]
        clause == ExceptClause(exc)
    IN  IF ~clause.log
        THEN [errors |-> Some(clause.code), logged |-> None, escaped |-> None]
        ELSE IF f.username = None
        THEN [errors |-> None, logged |-> None,
              escaped |-> Some(Exc("UnboundLocalError",
                                   UnboundLocalText(<<"u", "s", "e", "r",
                                                      "n", "a", "m", "e">>)))]
        ELSE IF f.password = None
        THEN [errors |-> None, logged |-> None,
              escaped |-> Some(Exc("UnboundLocalError",
                                   UnboundLocalText(<<"p", "a", "s", "s",
                                                      "w", "o", "r", "d">>)))]
        ELSE [errors |-> Some(clause.code),
              logged |-> Some(cleanse_sensitive_data(
                                  Message(exc),
                                  <<Some(f.username[1]), Some(f.password[1])>>)),
              escaped |-> None]

\* ---------------------------------------------------------------- results

\* self.async_show_form(step_id="user", data_schema=CONFIG_SCHEMA, errors=errors)
ShowUserForm(errors, logged) ==
    [NoResult EXCEPT !.type = "form", !.step_id = Some("user"),
                     !.errors = errors, !.logged = logged]

\* self.async_create_entry(title=name, data={...})
CreateEntry(created) ==
    [NoResult EXCEPT !.type = "create_entry", !.title = Some(created.title),
                     !.data = Some(created.data)]

\* An exception that leaves the step reaches the caller.
Escapes(exc) == [NoResult EXCEPT !.type = "raise", !.exc = Some(exc.cls)]

\* The result of async_step_user for the frame its try block left.
StepResult(f) ==
    IF f.raised = None THEN CreateEntry(f.created[1])
    ELSE LET h == Handle(f)
         IN  IF h.escaped # None THEN Escapes(h.escaped[1])
             ELSE ShowUserForm(h.errors, h.logged)

\* ---------------------------------------------------------------- inputs

\* The most config entries the model lets exist.
MaxEntries == 2

UrlInputs ==
    { <<"h", ":", "/", "/", "a">>,
      <<" ", "H", ":", "/", "/", "a", "/", "a", "?", "a", "#", "a", " ">>,
      <<"h", ":", "/", "/", "a", "?", "a">>,
      <<"h", ":", "/", "/", "a", " ", "/", "a">>,
      <<"a", "/", "a">>,
      <<"/", "/", "a">>,
      <<"h", ":", "/", "a">>,
      <<"h", ":", "/", "/", "[", "a">>,
      <<"h", ":", "/", "/", "[", "a", "]">>,
      <<"h", ":", "/", "/", "[", "a", ":", ":", "a", "]", ":", "a", "/">> }

NameInputs == { <<>>, <<"my">>, <<"fw", ".", "lan">> }

Credentials ==
    { [verify_ssl |-> FALSE, username |-> <<"a", "d", "m", "i", "n">>, password |-> <<
                                                                                      "p",
                                                                                      "w">>],
      [verify_ssl |-> TRUE, username |-> <<"r", "o", "o", "t">>, password |-> <<
                                                                                "s",
                                                                                " ",
                                                                                "3">>] }

Restrict(d, keys) == [k \in keys |-> d[k]]

AllKeys == {CONF_URL, CONF_VERIFY_SSL, CONF_USERNAME, CONF_PASSWORD, CONF_NAME}

FullInputs ==
    { [url |-> u, verify_ssl |-> c.verify_ssl, username |-> c.username,
       password |-> c.password, name |-> n] :
          u \in UrlInputs, c \in Credentials, n \in NameInputs }

\* What CONFIG_SCHEMA lets through (lines 33-41): url and password given,
\* verify_ssl and username given or defaulted, name optional.
FormInputs ==
    FullInputs \cup { Restrict(d, AllKeys \ {CONF_NAME}) : d \in FullInputs }

\* What async_step_import may be handed: any of the keys may be missing.
ImportInputs ==
    { Restrict(d, keys) :
          d \in { x \in FullInputs : x.url = <<"h", ":", "/", "/", "a">>
                                     /\ x.username = <<"r", "o", "o", "t">>
                                     /\ x.name = <<"my">> },
          keys \in SUBSET AllKeys }

DeviceIds == { <<"A", "b">>, <<"a", "b">>, <<"b", "-", "a">>, <<"-">> }

FullSystemInfo(id) ==
    [hostname |-> <<"fw">>, domain |-> <<"lan">>, netgate_device_id |-> id]

SystemInfos ==
    { FullSystemInfo(id) : id \in DeviceIds }
        \cup { Restrict(FullSystemInfo(<<"a", "b">>), keys) :
                   keys \in { {"hostname", "domain"},
                              {"hostname", "netgate_device_id"},
                              {"domain", "netgate_device_id"} } }

Markers ==
    { <<"I", "n", "v", "a", "l", "i", "d", " ", "u", "s", "e", "r", "n",
        "a", "m", "e", " ", "o", "r", " ", "p", "a", "s", "s", "w", "o",
        "r", "d">>,
      <<"A", "u", "t", "h", "e", "n", "t", "i", "c", "a", "t", "i", "o",
        "n", " ", "f", "a", "i", "l", "e", "d", ":", " ", "n", "o", "t",
        " ", "e", "n", "o", "u", "g", "h", " ", "p", "r", "i", "v", "i",
        "l", "e", "g", "e", "s">>,
      <<"3", "0", "7", " ", "T", "e", "m", "p", "o", "r", "a", "r", "y",
        " ", "R", "e", "d", "i", "r", "e", "c", "t">>,
      <<"3", "0", "1", " ", "M", "o", "v", "e", "d", " ", "P", "e", "r",
        "m", "a", "n", "e", "n", "t", "l", "y">>,
      <<"u", "n", "s", "u", "p", "p", "o", "r", "t", "e", "d", " ", "X",
        "M", "L", "-", "R", "P", "C", " ", "p", "r", "o", "t", "o", "c",
        "o", "l">>,
      <<"t", "i", "m", "e", "d", " ", "o", "u", "t">>,
      <<"S", "S", "L", ":">> }

\* Texts without a marker: one names no secret, the others hold the
\* password "s 3" as it is and as quote_plus gives it.
Phrases == Markers \cup { <<"r", "e", "f", "u", "s", "e", "d">>, <<"f",
                                                                   "o",
                                                                   "r",
                                                                   " ",
                                                                   "s",
                                                                   " ", "3">>, <<
                                                                                 "f",
                                                                                 "o",
                                                                                 "r",
                                                                                 " ",
                                                                                 "s",
                                                                                 "+",
                                                                                 "3">> }

\* Markers that one except clause tests, for texts holding two of them.
ClauseMarkers ==
    { { <<"I", "n", "v", "a", "l", "i", "d", " ", "u", "s", "e", "r", "n",
          "a", "m", "e", " ", "o", "r", " ", "p", "a", "s", "s", "w", "o",
          "r", "d">>,
        <<"A", "u", "t", "h", "e", "n", "t", "i", "c", "a", "t", "i", "o",
          "n", " ", "f", "a", "i", "l", "e", "d", ":", " ", "n", "o", "t",
          " ", "e", "n", "o", "u", "g", "h", " ", "p", "r", "i", "v", "i",
          "l", "e", "g", "e", "s">> },
      { <<"3", "0", "7", " ", "T", "e", "m", "p", "o", "r", "a", "r", "y",
          " ", "R", "e", "d", "i", "r", "e", "c", "t">>,
        <<"3", "0", "1", " ", "M", "o", "v", "e", "d", " ", "P", "e", "r",
          "m", "a", "n", "e", "n", "t", "l", "y">> },
      { <<"u", "n", "s", "u", "p", "p", "o", "r", "t", "e", "d", " ", "X",
          "M", "L", "-", "R", "P", "C", " ", "p", "r", "o", "t", "o", "c",
          "o", "l">>,
        <<"t", "i", "m", "e", "d", " ", "o", "u", "t">>,
        <<"S", "S", "L", ":">> } }

ErrorTexts ==
    { <<>> } \cup Phrases
        \cup { pq[1] \o <<" ">> \o pq[2] :
                   pq \in { x \in Markers \X Markers :
                                /\ x[1] # x[2]
                                /\ \E c \in ClauseMarkers : x[1] \in c /\ x[2] \in c } }

\* str(xmlrpc.client.Fault(1, text))
FaultText(text) == <<"<", "F", "a", "u", "l", "t", " ", "1", ":", " ", "'">> \o text \o <<
                                                                                          "'",
                                                                                          ">">>

\* str(xmlrpc.client.ProtocolError(url, errcode, errmsg, headers)):
\* "<ProtocolError for %s: %s %s>" % (url, errcode, errmsg).  The error code
\* is the text up to its first space and the error message what follows it.
ProtocolErrorText(text) ==
    LET space == Find(text, {" "}, 1)
        errcode == IF space = 0 THEN text ELSE SubSeq(text, 1, space - 1)
        errmsg == IF space = 0 THEN <<>> ELSE SubSeq(text, space + 1, Len(text))
    IN  <<"<", "P", "r", "o", "t", "o", "c", "o", "l", "E", "r", "r", "o", "r",
          " ", "f", "o", "r", " ", "a", "/", "x", "m", "l", "r", "p", "c", ".",
          "p", "h", "p", ":", " ">> \o errcode \o <<" ">> \o errmsg \o <<">">>

DeviceErrors ==
    { Exc("Fault", FaultText(text)) : text \in ErrorTexts }
        \cup { Exc("ProtocolError", ProtocolErrorText(text)) : text \in ErrorTexts }
        \cup { Exc(cls, text) :
                   cls \in {"OSError", "TimeoutError", "Exception", "CancelledError"},
                   text \in ErrorTexts }

\* Unique ids under which other flows of this handler create entries.
OtherUniqueIds == { <<"a", "b">>, <<"b", "_", "a">> }

\* ---------------------------------------------------------------- state

VARIABLES
    entries,         \* unique ids of the config entries, in creation order
    pc,              \* where the flow's step is: "idle" between calls, or
                     \* the call it awaits (lines 84 and 94)
    via,             \* the step the last submission came through
    user_input,      \* the last user_input, None for a call without input
    device,          \* what client.get_system_info did in the last call
    frame,           \* locals and effects of the last run of the try block
    result,          \* the flow result of the last call
    pending,         \* unique id of the entry the flow manager has yet to add
    options,         \* config_entry.options
    options_input,   \* the last user_input of the options flow
    options_result   \* the result of the last async_step_init

vars ==
    <<entries, pc, via, user_input, device, frame, result, pending,
      options, options_input, options_result>>

config_vars == <<entries, pc, via, user_input, device, frame, result, pending>>

options_vars == <<options, options_input, options_result>>

Init ==
    /\ entries = <<>>
    /\ pc = "idle"
    /\ via = "none"
    /\ user_input = None
    /\ device = None
    /\ frame = NoFrame
    /\ result = NoResult
    /\ pending = None
    /\ options = <<>>
    /\ options_input = None
    /\ options_result = NoOptionsResult

\* ---------------------------------------------------------------- config flow

\* The form input that the model pairs with every device error.
ProbeInputs ==
    { d \in FormInputs : /\ d.url = <<"h", ":", "/", "/", "a">>
                         /\ d.username = <<"r", "o", "o", "t">>
                         /\ CONF_NAME \notin DOMAIN d }

\* What client.get_system_info may do in the call that was given input.
DeviceOutcomes(step, input) ==
    IF step = "import"
    THEN { Returns(FullSystemInfo(<<"a", "b">>)),
           Raises(Exc("OSError", <<"r", "e", "f", "u", "s", "e", "d">>)),
           Raises(Exc("OSError", <<"t", "i", "m", "e", "d", " ", "o", "u",
                                   "t">>)) }
    ELSE { Returns(system_info) : system_info \in SystemInfos }
             \cup (IF input \in ProbeInputs
                   THEN { Raises(exc) : exc \in DeviceErrors }
                   ELSE {})

\* async_step_user(None): the form is shown.
async_step_user_show ==
    /\ pc = "idle"
    /\ pending = None
    /\ via' = "user"
    /\ user_input' = None
    /\ device' = None
    /\ frame' = NoFrame
    /\ result' = ShowUserForm(None, None)
    /\ UNCHANGED <<entries, pc, pending, options_vars>>

\* async_step_user(user_input) with the form's input, up to the await of
\* line 84 (lines 60-84), or to its return when the try block fails before.
async_step_user ==
    /\ pc = "idle"
    /\ pending = None
    /\ \E input \in FormInputs :
           \E f \in { BeforeDevice(input) } :
               /\ via' = "user"
               /\ user_input' = Some(input)
               /\ device' = None
               /\ frame' = f
               /\ result' = IF f.raised # None THEN StepResult(f) ELSE NoResult
               /\ pc' = IF f.raised # None THEN "idle" ELSE "get_system_info"
               /\ UNCHANGED <<entries, pending, options_vars>>

\* async_step_import(user_input): async_step_user with an input that no
\* schema has checked (lines 159-161), up to the same point.
async_step_import ==
    /\ pc = "idle"
    /\ pending = None
    /\ \E input \in ImportInputs :
           \E f \in { BeforeDevice(input) } :
               /\ via' = "import"
               /\ user_input' = Some(input)
               /\ device' = None
               /\ frame' = f
               /\ result' = IF f.raised # None THEN StepResult(f) ELSE NoResult
               /\ pc' = IF f.raised # None THEN "idle" ELSE "get_system_info"
               /\ UNCHANGED <<entries, pending, options_vars>>

\* The executor job of line 84 is done and the step goes on to the await of
\* line 94 (lines 84-96), or to its return when the try block fails before.
get_system_info ==
    /\ pc = "get_system_info"
    /\ \E outcome \in DeviceOutcomes(via, user_input[1]) :
           \E f \in { AfterDevice(frame, outcome) } :
               /\ device' = Some(outcome)
               /\ frame' = f
               /\ result' = IF f.raised # None THEN StepResult(f) ELSE NoResult
               /\ pc' = IF f.raised # None THEN "idle" ELSE "async_set_unique_id"
               /\ UNCHANGED <<entries, via, user_input, pending, options_vars>>

\* async_set_unique_id is done and the step goes on to its return (lines
\* 97-157).  The entry of a create_entry result is left to the flow manager.
async_set_unique_id ==
    /\ pc = "async_set_unique_id"
    /\ \E f \in { AfterUniqueId(frame, entries) } :
           /\ f.created # None => Len(entries) < MaxEntries
           /\ frame' = f
           /\ result' = StepResult(f)
           /\ pending' = IF f.created # None THEN f.unique_id ELSE None
           /\ pc' = "idle"
           /\ UNCHANGED <<entries, via, user_input, device, options_vars>>

\* The config entries after the flow manager has added an entry with the
\* unique id: an entry that had the unique id is removed first.
Registered(configured, unique_id) ==
    Append(SelectSeq(configured, LAMBDA e : e # unique_id), unique_id)

\* The flow manager finishes the flow of a create_entry result: it adds the
\* entry after the step has returned.
async_finish_flow ==
    /\ pending # None
    /\ entries' = Registered(entries, pending[1])
    /\ pending' = None
    /\ UNCHANGED <<pc, via, user_input, device, frame, result, options_vars>>

\* Another flow of this handler finishes and its entry is added, at any
\* point of this flow.
other_flow_finishes ==
    \E unique_id \in OtherUniqueIds :
        /\ Len(entries) + (IF pending # None THEN 1 ELSE 0) < MaxEntries
        /\ entries' = Registered(entries, unique_id)
        /\ UNCHANGED <<pc, via, user_input, device, frame, result, pending,
                       options_vars>>

\* ---------------------------------------------------------------- options flow

ScanIntervals == {10, 30, 60, 300}

TrackerScanIntervals == {30, 150, 300}

OptionKeys ==
    {CONF_SCAN_INTERVAL, CONF_DEVICE_TRACKER_ENABLED,
     CONF_DEVICE_TRACKER_SCAN_INTERVAL}

\* The user_input of the options flow: any of the keys may be missing.
OptionsInputs ==
    { Restrict(d, keys) :
          d \in [scan_interval : ScanIntervals,
                 device_tracker_enabled : BOOLEAN,
                 device_tracker_scan_interval : TrackerScanIntervals],
          keys \in SUBSET OptionKeys }

\* Variant of InitForm that ignores the stored options.
InitFormMutantIgnoreStored(stored) ==
    [NoOptionsResult EXCEPT
        !.type = "form", !.step_id = Some("init"),
        !.defaults = Some(
            [scan_interval |-> DEFAULT_SCAN_INTERVAL,
             device_tracker_enabled |-> DEFAULT_DEVICE_TRACKER_ENABLED,
             device_tracker_scan_interval |-> DEFAULT_DEVICE_TRACKER_SCAN_INTERVAL])]

\* Lines 182-205: the 'init' form, its defaults read from the stored options.
InitForm(stored) ==
    [NoOptionsResult EXCEPT
        !.type = "form", !.step_id = Some("init"),
        !.defaults = Some(
            [scan_interval |->
                 DictGet(stored, CONF_SCAN_INTERVAL, DEFAULT_SCAN_INTERVAL),
             device_tracker_enabled |->
                 DictGet(stored, CONF_DEVICE_TRACKER_ENABLED,
                         DEFAULT_DEVICE_TRACKER_ENABLED),
             device_tracker_scan_interval |->
                 DictGet(stored, CONF_DEVICE_TRACKER_SCAN_INTERVAL,
                         DEFAULT_DEVICE_TRACKER_SCAN_INTERVAL)])]

\* async_step_init(None)
async_step_init_show ==
    /\ options_input' = None
    /\ options_result' = InitForm(options)
    /\ UNCHANGED <<options, config_vars>>

\* async_step_init(user_input): async_create_entry(title="", data=user_input).
\* The options flow manager stores the data of the finished flow as the
\* options of the config entry.
async_step_init ==
    \E input \in OptionsInputs :
        /\ options_input' = Some(input)
        /\ options_result' =
               [NoOptionsResult EXCEPT !.type = "create_entry",
                                       !.title = Some(<<>>),
                                       !.data = Some(input)]
        /\ options' = input
        /\ UNCHANGED config_vars

\* ---------------------------------------------------------------- specifications
Next ==
    \/ async_step_user_show
    \/ async_step_user
    \/ async_step_import
    \/ get_system_info
    \/ async_set_unique_id
    \/ async_finish_flow
    \/ other_flow_finishes

Spec == Init /\ [][Next]_vars

\* The options flow of one config entry.
InitOptions ==
    /\ entries = << <<"a", "b">> >>
    /\ pc = "idle"
    /\ via = "none"
    /\ user_input = None
    /\ device = None
    /\ frame = NoFrame
    /\ result = NoResult
    /\ pending = None
    /\ options = <<>>
    /\ options_input = None
    /\ options_result = NoOptionsResult

NextOptions ==
    \/ async_step_init_show
    \/ async_step_init

SpecOptions == InitOptions /\ [][NextOptions]_vars

\* ---------------------------------------------------------------- properties

\* The submission of the last call.
Submitted == user_input[1]

\* "<scheme>://<netloc>" of a URL, None when the flow rejects the URL.
NormaliseUrl(u) ==
    LET parts == urlparse(strip(u))
    IN  IF parts.raised = None /\ parts.scheme # <<>> /\ parts.netloc # <<>>
        THEN Some(parts.scheme \o <<":", "/", "/">> \o parts.netloc)
        ELSE None

\* C1: an entry is created only in a call that was given a submission, that
\* constructed the client with the normalised URL and the submitted (or
\* defaulted) username, password and verify_ssl, and whose device call
\* returned; a call without input and a failed submission create none.
C1_CreatedOnlyAfterValidation ==
    /\ (result.type = "create_entry") = (frame.created # None)
    /\ result.type = "create_entry" =>
           /\ user_input # None
           /\ frame.raised = None
           /\ frame.called
           /\ device # None
           /\ device[1].kind = "return"
           /\ {CONF_URL, CONF_PASSWORD} \subseteq DOMAIN Submitted
           /\ NormaliseUrl(Submitted.url) # None
           /\ frame.client =
                  Some([url |-> NormaliseUrl(Submitted.url)[1],
                        verify_ssl |-> DictGet(Submitted, CONF_VERIFY_SSL,
                                               DEFAULT_VERIFY_SSL),
                        username |-> DictGet(Submitted, CONF_USERNAME,
                                             DEFAULT_USERNAME),
                        password |-> Submitted.password])

C1_Witness ==
    /\ result.type = "create_entry"
    /\ Submitted.url # NormaliseUrl(Submitted.url)[1]
    /\ {CONF_USERNAME, CONF_VERIFY_SSL} \subseteq DOMAIN Submitted
    /\ Submitted.username = <<"r", "o", "o", "t">>
    /\ Submitted.verify_ssl

NoDuplicates(seq) == \A i, j \in 1..Len(seq) : seq[i] = seq[j] => i = j

\* The last call has returned; it set a unique id that a config entry
\* already had.
AlreadyConfigured ==
    /\ pc = "idle"
    /\ frame.unique_id # None
    /\ frame.created = None
    /\ UniqueIdConfigured(frame.unique_id[1], entries)

\* C2: the unique id is the slug of the device id before an entry is
\* created, no two entries have the same unique id, and a submission for a
\* device that is already configured ends with an abort result and not with
\* the user form.
C2_AbortWhenConfigured ==
    /\ result.type = "create_entry" =>
           frame.unique_id = Some(slugify(device[1].info["netgate_device_id"]))
    /\ NoDuplicates(entries)
    /\ AlreadyConfigured => result.type = "abort"

\* The submitted URL parses and has an empty scheme or an empty netloc.
InvalidUrlSubmitted ==
    /\ user_input # None
    /\ CONF_URL \in DOMAIN Submitted
    /\ LET parts == urlparse(strip(Submitted.url))
       IN  parts.raised = None /\ (parts.scheme = <<>> \/ parts.netloc = <<>>)

\* C3: a URL with an empty scheme or netloc re-shows the user form with
\* invalid_url_format; no client, no device call, no unique id, no entry.
C3_InvalidUrlForm ==
    InvalidUrlSubmitted =>
        /\ result.type = "form"
        /\ result.step_id = Some("user")
        /\ result.errors = Some("invalid_url_format")
        /\ frame.client = None
        /\ ~frame.called
        /\ device = None
        /\ frame.unique_id = None
        /\ frame.created = None

C3_Witness ==
    /\ InvalidUrlSubmitted
    /\ urlparse(strip(Submitted.url)).scheme # <<>>
    /\ result.errors = Some("invalid_url_format")

\* The error code the mapping of C4 gives an exception of the device call.
ExpectedCode(exc) ==
    LET has(phrase) ==
            \E i \in 1..Len(exc.text) :
                /\ i + Len(phrase) - 1 <= Len(exc.text)
                /\ \A k \in 1..Len(phrase) : exc.text[i + k - 1] = phrase[k]
    IN  CASE exc.cls = "Fault" ->
                 IF has(<<"I", "n", "v", "a", "l", "i", "d", " ", "u", "s",
                          "e", "r", "n", "a", "m", "e", " ", "o", "r", " ",
                          "p", "a", "s", "s", "w", "o", "r", "d">>) THEN "invalid_auth"
                 ELSE IF has(<<"A", "u", "t", "h", "e", "n", "t", "i", "c",
                               "a", "t", "i", "o", "n", " ", "f", "a", "i",
                               "l", "e", "d", ":", " ", "n", "o", "t", " ",
                               "e", "n", "o", "u", "g", "h", " ", "p", "r",
                               "i", "v", "i", "l", "e", "g", "e", "s">>)
                 THEN "privilege_missing"
                 ELSE "cannot_connect"
          [] exc.cls = "ProtocolError" ->
                 IF has(<<"3", "0", "7", " ", "T", "e", "m", "p", "o", "r",
                          "a", "r", "y", " ", "R", "e", "d", "i", "r", "e",
                          "c", "t">>) \/ has(<<"3", "0", "1", " ", "M",
                                               "o", "v", "e", "d", " ",
                                               "P", "e", "r", "m", "a",
                                               "n", "e", "n", "t", "l", "y">>)
                 THEN "url_redirect"
                 ELSE "cannot_connect"
          [] exc.cls \in {"OSError", "TimeoutError"} ->
                 IF has(<<"u", "n", "s", "u", "p", "p", "o", "r", "t", "e",
                          "d", " ", "X", "M", "L", "-", "R", "P", "C", " ",
                          "p", "r", "o", "t", "o", "c", "o", "l">>) THEN "privilege_missing"
                 ELSE IF has(<<"t", "i", "m", "e", "d", " ", "o", "u", "t">>) THEN "connect_timeout"
                 ELSE IF has(<<"S", "S", "L", ":">>) THEN "cannot_connect_ssl"
                 ELSE "unknown"
          [] OTHER -> "unknown"

\* C4: a failed device call re-shows the user form with the one error code
\* its exception class and the first matching phrase of its text give, and
\* creates no entry.
C4_DeviceErrorCode ==
    (device # None /\ device[1].kind = "raise") =>
        /\ result.type = "form"
        /\ result.step_id = Some("user")
        /\ result.errors = Some(ExpectedCode(device[1].error))
        /\ frame.created = None

C4_Witness ==
    /\ device = Some(Raises(Exc("TimeoutError",
                                <<"t", "i", "m", "e", "d", " ", "o", "u",
                                  "t">> \o <<" ">>
                                    \o <<"u", "n", "s", "u", "p", "p", "o",
                                         "r", "t", "e", "d", " ", "X", "M",
                                         "L", "-", "R", "P", "C", " ", "p",
                                         "r", "o", "t", "o", "c", "o", "l">>)))
    /\ result.errors = Some("privilege_missing")

\* The defaults of the 'init' form for the stored options.
ExpectedDefaults(stored) ==
    [scan_interval |->
         IF "scan_interval" \in DOMAIN stored
         THEN stored["scan_interval"] ELSE DEFAULT_SCAN_INTERVAL,
     device_tracker_enabled |->
         IF "device_tracker_enabled" \in DOMAIN stored
         THEN stored["device_tracker_enabled"] ELSE DEFAULT_DEVICE_TRACKER_ENABLED,
     device_tracker_scan_interval |->
         IF "device_tracker_scan_interval" \in DOMAIN stored
         THEN stored["device_tracker_scan_interval"]
         ELSE DEFAULT_DEVICE_TRACKER_SCAN_INTERVAL]

\* What C5 says of the state a step of the options flow leaves.
OptionsStepDone ==
    IF options_input # None
    THEN /\ options_result.type = "create_entry"
         /\ options_result.title = Some(<<>>)
         /\ options_result.data = options_input
    ELSE /\ options_result.type = "form"
         /\ options_result.step_id = Some("init")
         /\ options_result.data = None
         /\ options_result.defaults = Some(ExpectedDefaults(options))

\* C5: async_step_init with input creates the options entry with title ""
\* and the input as data; without input it creates nothing, leaves the
\* stored options as they are and shows the 'init' form with the stored
\* values, or the defaults for absent keys, as defaults.
C5_OptionsFlow ==
    [][ /\ OptionsStepDone'
        /\ options_input' = None => options' = options ]_vars

C5_Witness ==
    /\ options_input = None
    /\ options_result.type = "form"
    /\ DOMAIN options = {CONF_SCAN_INTERVAL}
    /\ options[CONF_SCAN_INTERVAL] = 60
    /\ options_result.defaults[1].scan_interval = 60
    /\ options_result.defaults[1].device_tracker_scan_interval
           = DEFAULT_DEVICE_TRACKER_SCAN_INTERVAL

\* What C6 says of the data of a created entry, its remark on normalising
\* twice apart.
EntryDataAsSubmitted ==
    result.type = "create_entry" =>
        LET d == result.data[1]
            parts == urlparse(strip(Submitted.url))
        IN  /\ DOMAIN d = {CONF_URL, CONF_PASSWORD, CONF_USERNAME, CONF_VERIFY_SSL}
            /\ d.url = parts.scheme \o <<":", "/", "/">> \o parts.netloc
            /\ d.password = Submitted.password
            /\ d.username = DictGet(Submitted, CONF_USERNAME, DEFAULT_USERNAME)
            /\ d.verify_ssl = DictGet(Submitted, CONF_VERIFY_SSL, DEFAULT_VERIFY_SSL)
            /\ frame.client[1].url = d.url

\* C6 as stated: the stored URL is normalised, so normalising it again
\* changes nothing.
C6_DataNormalised ==
    /\ EntryDataAsSubmitted
    /\ result.type = "create_entry" =>
           NormaliseUrl(result.data[1].url) = Some(result.data[1].url)

\* C7: the title is the submitted name when it is not empty, and otherwise
\* "<hostname>.<domain>" of the system info the device returned.
C7_Title ==
    result.type = "create_entry" =>
        LET info == device[1].info
        IN  IF CONF_NAME \in DOMAIN Submitted /\ Submitted.name # <<>>
            THEN result.title = Some(Submitted.name)
            ELSE /\ {"hostname", "domain"} \subseteq DOMAIN info
                 /\ result.title = Some(info["hostname"] \o <<".">> \o info["domain"])

C7_Witness ==
    /\ result.type = "create_entry"
    /\ CONF_NAME \in DOMAIN Submitted
    /\ Submitted.name = <<>>
    /\ result.title = Some(<<"fw", ".", "lan">>)

\* C8: no call of async_step_user lets an exception escape; every
\* exception of the try block becomes the user form with an error code.
C8_NoExceptionEscapes ==
    /\ result.type # "raise"
    /\ frame.raised # None =>
           /\ result.type = "form"
           /\ result.step_id = Some("user")
           /\ result.errors # None
====